---- MODULE Spec2Model ----
(***************************************************************************)
(* Seat inventory of the event-booking API: the createBooking and          *)
(* cancelBooking request handlers of booking.controller.js and the         *)
(* updateEvent handler of event.controller.js running as concurrent        *)
(* requests against one PostgreSQL store through Sequelize.                *)
(*                                                                         *)
(* Store.  `events` and `bookings` hold the committed rows.  A handler's   *)
(* transaction is unmanaged (sequelize.transaction()): only the calls that *)
(* pass { transaction } run inside it; every other query runs on another   *)
(* pooled connection and sees committed rows only (READ COMMITTED).  The   *)
(* writes of an open transaction are kept in tx[p] and reach the store at  *)
(* commit; a row written by an open transaction is locked until that       *)
(* transaction ends, and a second writer of the row waits.                 *)
(*                                                                         *)
(* Each await of a handler is one step of its process; the synchronous     *)
(* code that follows an await belongs to the same step.                    *)
(*                                                                         *)
(* The controllers name the event columns status, startDate and capacity;  *)
(* the model file names totalSeats, dateTime and isActive.  The event row  *)
(* here carries the columns the handlers read (status, startDate,          *)
(* availableSeats, price, organizerId) and totalSeats, which the model     *)
(* validator reads.                                                        *)
(*                                                                         *)
(* Spec runs reserve and cancel requests from any state of the connection  *)
(* pool; AdminSpec adds updateEvent requests; ScenarioSpec runs the        *)
(* end-to-end scenario, one call after the other.                          *)
(***************************************************************************)
EXTENDS Integers, FiniteSets, Sequences, TLC

\* ---------------------------------------------------------------- bounds
NumProcs == 2       \* concurrent request-handling units
NumUsers == 2       \* user 1 is an admin, the others have role "user"
NumEvents == 2
MaxSeats == 2       \* largest numberOfSeats a request carries
InitSeats == 2      \* totalSeats of every event
MaxCalls == 3       \* requests started in one behaviour
MaxTime == 1        \* clock ticks; every event starts at time 1
InitPrice == 50     \* price of every event

\* the end-to-end scenario: an event of ScenarioSeats seats, user A reserves
\* SeatsA of them, user B asks for SeatsB
ScenarioSeats == 10
SeatsA == 3
SeatsB == 8

\* pool.max of the database configuration
PoolMax == 5

\* max of the booking rate limit: requests of one client in one window
BookingMax == 3

\* requests sent to POST /bookings in one behaviour of the rate limiter, and
\* requests sent to the account routes in one behaviour of the accounts
MaxRequests == 5

\* accounts registered in one behaviour
MaxNewUsers == 1

Procs == 1 .. NumProcs
Users == 1 .. NumUsers
EventIds == 1 .. NumEvents
SeatCounts == 1 .. MaxSeats

\* an id no row carries
NoId == 0

\* numberOfSeats of a body that carries none: the schema lets no number
\* below 1 through, so 0 stands for the absent one
Undefined == 0

\* the number that arithmetic on undefined gives; no seat count or amount of
\* the model comes near it
NaN == -1000000

IsNaN(x) == x = NaN

EventStatuses == {"upcoming", "completed"}

Role(u) == IF u = 1 THEN "admin" ELSE "user"

NoEvent == [id |-> NoId, status |-> "none", startDate |-> 0,
            totalSeats |-> 0, availableSeats |-> 0, price |-> 0, organizerId |-> NoId,
            isActive |-> FALSE]

NoBooking == [id |-> NoId, userId |-> NoId, eventId |-> NoId,
              numberOfSeats |-> 0, totalAmount |-> 0, status |-> "none"]

NoReq == [kind |-> "none", user |-> NoId, event |-> NoId, seats |-> 0, bid |-> NoId,
          updates |-> << >>]

\* the write set of a transaction: the row it inserted, the booking row it
\* updated, the event row it updated and the columns it wrote there, the event
\* row it deleted
NoTx == [state |-> "none", ins |-> NoBooking, bupd |-> NoId,
         evId |-> NoId, evSet |-> << >>, evDel |-> NoId]

VARIABLES
  events,    \* committed event rows: id -> row
  bookings,  \* committed booking rows: id -> row
  now,       \* the clock new Date() reads
  leaked,    \* pooled connections held by transactions no handler will end
  calls,     \* requests started so far
  pc,        \* where each handler stands
  req,       \* the request a handler serves
  ev,        \* the Event instance a handler holds
  bk,        \* the Booking instance cancelBooking holds
  tx,        \* each handler's transaction
  err,       \* the error on its way to the catch block
  res,       \* the latest answer a handler gave
  hits,      \* the booking limiter's store: client key -> hits of the window
  reached,   \* requests of a client that reached createBooking in the window
  users,     \* committed user rows: id -> row
  token,     \* the token the client holds and the user it was issued to
  reqUser    \* req.user as the authenticate middleware set it

\* the state of the rate limiter and of the accounts
limiterVars == <<hits, reached>>

accountVars == <<users, token, reqUser>>

vars == <<events, bookings, now, leaked, calls, pc, req, ev, bk, tx, err, res,
          limiterVars, accountVars>>

store == <<events, bookings>>

\* ---------------------------------------------------------------- helpers
RECURSIVE SumSeats(_, _)
SumSeats(rows, ids) ==
  IF ids = {} THEN 0
  ELSE LET i == CHOOSE x \in ids : TRUE
       IN rows[i].numberOfSeats + SumSeats(rows, ids \ {i})

OpenTx == {p \in Procs : tx[p].state = "open"}

\* connections of the pool nobody holds
Free == PoolMax - leaked - Cardinality(OpenTx)

EventRow(e) == [id |-> e, status |-> events[e].status, startDate |-> events[e].startDate,
                totalSeats |-> events[e].totalSeats,
                availableSeats |-> events[e].availableSeats,
                price |-> events[e].price, organizerId |-> events[e].organizerId,
                isActive |-> events[e].isActive]

BookingRow(b) == [id |-> b, userId |-> bookings[b].userId, eventId |-> bookings[b].eventId,
                  numberOfSeats |-> bookings[b].numberOfSeats,
                  totalAmount |-> bookings[b].totalAmount, status |-> bookings[b].status]

Throw(p, e) ==
  /\ pc' = [pc EXCEPT ![p] = "catch"]
  /\ err' = [err EXCEPT ![p] = e]

\* the handler answers r and ends; its locals go with it
Finish(p, r) ==
  /\ pc' = [pc EXCEPT ![p] = "idle"]
  /\ res' = r
  /\ req' = [req EXCEPT ![p] = NoReq]
  /\ ev' = [ev EXCEPT ![p] = NoEvent]
  /\ bk' = [bk EXCEPT ![p] = NoBooking]
  /\ tx' = [tx EXCEPT ![p] = NoTx]
  /\ err' = [err EXCEPT ![p] = "none"]

\* ---------------------------------------------------------------- accounts
\* a string and the number of times bcrypt has been applied to it; a password
\* as the user types it has hashed = 0
SeedPassword == [text |-> "password123", hashed |-> 0]

\* bcrypt.hash(value, salt)
Hash(value) == [value EXCEPT !.hashed = @ + 1]

\* bcrypt.compare(candidate, stored): stored is bcrypt of candidate under
\* the salt stored carries
Compare(candidate, stored) == stored = Hash(candidate)

\* the rows the seeder inserts with bulkInsert, which runs no model hook; an
\* email is named by a number
SeededUsers ==
  [u \in Users |-> [email |-> u, password |-> Hash(SeedPassword),
                    role |-> Role(u), isActive |-> TRUE]]

\* no Authorization header
NoToken == [jwt |-> [payload |-> << >>, alg |-> "none", key |-> "none"], user |-> NoId]

AccountsInit ==
  /\ users = SeededUsers
  /\ token = NoToken
  /\ reqUser = NoId

\* the limiter's store is empty
LimiterInit ==
  /\ hits = [u \in Users |-> 0]
  /\ reached = [u \in Users |-> 0]

\* ---------------------------------------------------------------- Init
Init ==
  /\ events \in [EventIds -> {[status |-> s, startDate |-> 1, totalSeats |-> InitSeats,
                               availableSeats |-> InitSeats, price |-> InitPrice,
                               organizerId |-> NoId, isActive |-> TRUE] : s \in EventStatuses}]
  /\ events[1].status = "upcoming"
  /\ bookings = << >>
  /\ now = 0
  /\ leaked \in 0 .. PoolMax
  /\ calls = 0
  /\ pc = [p \in Procs |-> "idle"]
  /\ req = [p \in Procs |-> NoReq]
  /\ ev = [p \in Procs |-> NoEvent]
  /\ bk = [p \in Procs |-> NoBooking]
  /\ tx = [p \in Procs |-> NoTx]
  /\ err = [p \in Procs |-> "none"]
  /\ res = "none"
  /\ LimiterInit
  /\ AccountsInit


\* ---------------------------------------------------------------- createBooking
\* a count that leaves the confirmed rows out
ExistingBookingsPendingOnly(u, e) ==
  Cardinality({b \in DOMAIN bookings :
                 /\ bookings[b].userId = u
                 /\ bookings[b].eventId = e
                 /\ bookings[b].status = "pending"})

\* Booking.count({ where: { userId, eventId, status: { [Op.in]: ["confirmed", "pending"] } } })
ExistingBookings(u, e) ==
  Cardinality({b \in DOMAIN bookings :
                 /\ bookings[b].userId = u
                 /\ bookings[b].eventId = e
                 /\ bookings[b].status \in {"confirmed", "pending"}})

\* a bookings table without the unique constraint
NoUniqueConstraint(u, e) == TRUE

\* the unique constraint of bookings(userId, eventId), against the committed rows
UniqueUserEventBooking(u, e) ==
  \A b \in DOMAIN bookings : ~(bookings[b].userId = u /\ bookings[b].eventId = e)

\* defaultValue: DataTypes.UUIDV4: an id no committed or pending row carries
FreshId ==
  LET used == DOMAIN bookings \cup {tx[q].ins.id : q \in OpenTx}
  IN CHOOSE i \in 1 .. Cardinality(used) + 1 : i \notin used

\* an INSERT waits while an open transaction holds an uncommitted row of the same key
InsertWaits(p, u, e) ==
  \E q \in Procs \ {p} :
    /\ tx[q].state = "open"
    /\ tx[q].ins.id # NoId
    /\ tx[q].ins.userId = u
    /\ tx[q].ins.eventId = e

\* an UPDATE of an event row waits while an open transaction has written or
\* deleted the row
EventRowLocked(p, e) ==
  \E q \in Procs \ {p} : tx[q].state = "open" /\ (tx[q].evId = e \/ tx[q].evDel = e)

\* the foreign-key check of an INSERT reads the event row under a key-share
\* lock: it waits while an open transaction has deleted the row
EventRowDeleting(p, e) ==
  \E q \in Procs \ {p} : tx[q].state = "open" /\ tx[q].evDel = e

\* validators without the model-wide availableSeatsNotExceedTotal
EventValidMinOnly(inst) == inst.availableSeats >= 0

\* the validators of the Event model, run by instance.update before the
\* UPDATE; min lets NaN through (isNaN(number) || number >= val) and so does
\* the comparison of availableSeatsNotExceedTotal
EventValid(inst) ==
  /\ IsNaN(inst.availableSeats) \/ inst.availableSeats >= 0
  /\ IsNaN(inst.availableSeats) \/ inst.availableSeats <= inst.totalSeats

\* a seats check that also turns away a request for every seat left
NotEnoughSeatsOrEqual(event, n) == event.availableSeats <= n

\* event.availableSeats < numberOfSeats, false when numberOfSeats is undefined
NotEnoughSeats(event, n) == n # Undefined /\ event.availableSeats < n

\* an amount that ignores the number of seats
TotalAmountFlat(event, n) == event.price

\* const totalAmount = event.price * numberOfSeats
TotalAmount(event, n) == IF n = Undefined THEN NaN ELSE event.price * n

\* numberOfSeats of the created row: defaultValue: 1 when the value is undefined
SeatsOrDefault(n) == IF n = Undefined THEN 1 ELSE n

\* const transaction = await sequelize.transaction()
ReserveBegin(p, u, e, n) ==
  /\ pc[p] = "idle"
  /\ Free > 0
  /\ calls' = calls + 1
  /\ req' = [req EXCEPT ![p] = [kind |-> "reserve", user |-> u, event |-> e,
                                seats |-> n, bid |-> NoId, updates |-> << >>]]
  /\ tx' = [tx EXCEPT ![p] = [NoTx EXCEPT !.state = "open"]]
  /\ pc' = [pc EXCEPT ![p] = "r_find"]
  /\ UNCHANGED <<events, bookings, now, leaked, ev, bk, err, res>>
  /\ UNCHANGED <<limiterVars, accountVars>>

\* sequelize.transaction() finds no connection within pool.acquire: the error
\* is thrown before the try block and catchAsync hands it to next()
BeginBusy(p) ==
  /\ pc[p] = "idle"
  /\ Free = 0
  /\ calls' = calls + 1
  /\ Finish(p, "Busy")
  /\ UNCHANGED <<events, bookings, now, leaked>>
  /\ UNCHANGED <<limiterVars, accountVars>>

\* validateBooking, first await: Event.findByPk(eventId) and the checks on the row
ValidateEvent(p) ==
  /\ pc[p] = "r_find"
  /\ Free > 0
  /\ LET e == req[p].event IN
     IF e \notin DOMAIN events THEN
       Throw(p, "NotFound") /\ UNCHANGED ev
     ELSE IF events[e].status # "upcoming" THEN
       Throw(p, "NotBookable") /\ UNCHANGED ev
     ELSE IF NotEnoughSeats(EventRow(e), req[p].seats) THEN
       Throw(p, "InsufficientSeats") /\ UNCHANGED ev
     ELSE
       /\ ev' = [ev EXCEPT ![p] = EventRow(e)]
       /\ pc' = [pc EXCEPT ![p] = "r_count"]
       /\ UNCHANGED err
  /\ UNCHANGED <<events, bookings, now, leaked, calls, req, bk, tx, res>>
  /\ UNCHANGED <<limiterVars, accountVars>>

\* validateBooking, second await: Booking.count and the check on it
CountExisting(p) ==
  /\ pc[p] = "r_count"
  /\ Free > 0
  /\ IF ExistingBookings(req[p].user, req[p].event) > 0
     THEN Throw(p, "DuplicateBooking")
     ELSE pc' = [pc EXCEPT ![p] = "r_insert"] /\ UNCHANGED err
  /\ UNCHANGED <<events, bookings, now, leaked, calls, req, ev, bk, tx, res>>
  /\ UNCHANGED <<limiterVars, accountVars>>

\* a booking created as pending
CreatedStatusPending == "pending"

\* status: "confirmed"
CreatedStatus == "confirmed"

\* Booking.create({...}, { transaction })
BookingCreate(p) ==
  /\ pc[p] = "r_insert"
  /\ ~InsertWaits(p, req[p].user, req[p].event)
  /\ ~EventRowDeleting(p, req[p].event)
  /\ IF req[p].event \notin DOMAIN events
     THEN /\ Throw(p, "ForeignKeyViolation")
          /\ UNCHANGED tx
     ELSE IF UniqueUserEventBooking(req[p].user, req[p].event)
     THEN /\ tx' = [tx EXCEPT ![p].ins =
                      [id |-> FreshId, userId |-> req[p].user, eventId |-> req[p].event,
                       numberOfSeats |-> SeatsOrDefault(req[p].seats),
                       totalAmount |-> TotalAmount(ev[p], req[p].seats),
                       status |-> CreatedStatus]]
          /\ pc' = [pc EXCEPT ![p] = "r_update"]
          /\ UNCHANGED err
     ELSE /\ Throw(p, "UniqueViolation")
          /\ UNCHANGED tx
  /\ UNCHANGED <<events, bookings, now, leaked, calls, req, ev, bk, res>>
  /\ UNCHANGED <<limiterVars, accountVars>>

\* event.availableSeats - numberOfSeats
SeatsAfterReserve(event, n) == IF n = Undefined THEN NaN ELSE event.availableSeats - n

\* event.update({ availableSeats: ... }, { transaction }); the INTEGER column
\* takes no NaN and the UPDATE fails
ReserveEventUpdate(p) ==
  /\ pc[p] = "r_update"
  /\ LET inst == [ev[p] EXCEPT !.availableSeats = SeatsAfterReserve(ev[p], req[p].seats)] IN
     IF ~EventValid(inst) THEN
       Throw(p, "ValidationError") /\ UNCHANGED <<tx, ev>>
     ELSE IF IsNaN(inst.availableSeats) THEN
       Throw(p, "DatabaseError") /\ UNCHANGED <<tx, ev>>
     ELSE
       /\ ~EventRowLocked(p, inst.id)
       /\ tx' = [tx EXCEPT ![p].evId = inst.id,
                            ![p].evSet = [availableSeats |-> inst.availableSeats]]
       /\ ev' = [ev EXCEPT ![p] = inst]
       /\ pc' = [pc EXCEPT ![p] = "r_commit"]
       /\ UNCHANGED err
  /\ UNCHANGED <<events, bookings, now, leaked, calls, req, bk, res>>
  /\ UNCHANGED <<limiterVars, accountVars>>

\* the committed rows once transaction t has committed; the bookings of a
\* deleted event go with it (bookings.eventId, onDelete: "CASCADE")
CommittedBookings(t) ==
  LET withIns == IF t.ins.id = NoId THEN bookings
                 ELSE bookings @@ (t.ins.id :> [userId |-> t.ins.userId,
                                                eventId |-> t.ins.eventId,
                                                numberOfSeats |-> t.ins.numberOfSeats,
                                                totalAmount |-> t.ins.totalAmount,
                                                status |-> t.ins.status])
      withUpd == IF t.bupd \in DOMAIN withIns
                 THEN [withIns EXCEPT ![t.bupd].status = "cancelled"]
                 ELSE withIns
      kept == {b \in DOMAIN withUpd : withUpd[b].eventId # t.evDel}
  IN IF t.evDel = NoId THEN withUpd ELSE [b \in kept |-> withUpd[b]]

\* an UPDATE sets the columns the transaction wrote and leaves the others; a
\* DELETE removes the row
CommittedEvents(t) ==
  IF t.evDel \in DOMAIN events
  THEN [e \in DOMAIN events \ {t.evDel} |-> events[e]]
  ELSE IF t.evId \in DOMAIN events
  THEN [events EXCEPT ![t.evId] = t.evSet @@ @]
  ELSE events

\* await transaction.commit()
ReserveCommit(p) ==
  /\ pc[p] = "r_commit"
  /\ bookings' = CommittedBookings(tx[p])
  /\ events' = CommittedEvents(tx[p])
  /\ tx' = [tx EXCEPT ![p].state = "committed"]
  /\ pc' = [pc EXCEPT ![p] = "r_fetch"]
  /\ UNCHANGED <<now, leaked, calls, req, ev, bk, err, res>>
  /\ UNCHANGED <<limiterVars, accountVars>>

\* Booking.findByPk(booking.id, { include: ... }) and res.status(201)
ReserveFetch(p) ==
  /\ pc[p] = "r_fetch"
  /\ Free > 0
  /\ Finish(p, "Created")
  /\ UNCHANGED <<events, bookings, now, leaked, calls>>
  /\ UNCHANGED <<limiterVars, accountVars>>

\* a pool without an acquire timeout: the query waits for a connection
QueryWaitsForever(p) == FALSE

\* a query outside the transaction finds no connection within pool.acquire
QueryBusy(p) ==
  /\ pc[p] \in {"r_find", "r_count", "r_fetch", "c_find", "u_find", "d_find"}
  /\ Free = 0
  /\ Throw(p, "Busy")
  /\ UNCHANGED <<events, bookings, now, leaked, calls, req, ev, bk, tx, res>>
  /\ UNCHANGED <<limiterVars, accountVars>>

\* catch (error) { await transaction.rollback(); next(error) }
\* rollback() of a finished transaction throws, and that error reaches next()
Catch(p) ==
  /\ pc[p] = "catch"
  /\ IF tx[p].state = "open"
     THEN Finish(p, err[p])
     ELSE Finish(p, "RollbackError")
  /\ UNCHANGED <<events, bookings, now, leaked, calls>>
  /\ UNCHANGED <<limiterVars, accountVars>>

\* ---------------------------------------------------------------- cancelBooking
\* an authorization that lets every actor through
NotAuthorizedNobody(booking, u) == FALSE

\* booking.userId !== req.user.id && req.user.role !== "admin"
NotAuthorized(booking, u) == booking.userId # u /\ Role(u) # "admin"

\* a status check that lets cancelled bookings through
NotCancellablePendingOnly(booking) == booking.status = "pending"

\* booking.status !== "confirmed"
NotCancellable(booking) == booking.status # "confirmed"

\* a time check that lets a cancel through at the very start time
AlreadyStartedStrictly(event) == event.startDate < now

\* new Date(booking.Event.startDate) <= new Date()
AlreadyStarted(event) == event.startDate <= now

\* an UPDATE of a booking row waits while an open transaction has written the
\* row or deleted the event the row belongs to
BookingRowLocked(p, b) ==
  \E q \in Procs \ {p} :
    /\ tx[q].state = "open"
    /\ \/ tx[q].bupd = b
       \/ b \in DOMAIN bookings /\ tx[q].evDel = bookings[b].eventId

\* const transaction = await sequelize.transaction()
CancelBegin(p, u, b) ==
  /\ pc[p] = "idle"
  /\ Free > 0
  /\ calls' = calls + 1
  /\ req' = [req EXCEPT ![p] = [kind |-> "cancel", user |-> u, event |-> NoId,
                                seats |-> 0, bid |-> b, updates |-> << >>]]
  /\ tx' = [tx EXCEPT ![p] = [NoTx EXCEPT !.state = "open"]]
  /\ pc' = [pc EXCEPT ![p] = "c_find"]
  /\ UNCHANGED <<events, bookings, now, leaked, ev, bk, err, res>>
  /\ UNCHANGED <<limiterVars, accountVars>>

\* return next(new AppError(...)) inside the try block: the handler answers and
\* ends without commit or rollback, so the transaction keeps its connection
ReturnEarly(p, e) ==
  /\ Finish(p, e)
  /\ leaked' = leaked + 1

\* Booking.findByPk(req.params.id, { include: [Event] }) and the checks on the row
CancelFind(p) ==
  /\ pc[p] = "c_find"
  /\ Free > 0
  /\ LET b == req[p].bid IN
     IF b \notin DOMAIN bookings THEN ReturnEarly(p, "NotFound")
     ELSE IF NotAuthorized(BookingRow(b), req[p].user) THEN ReturnEarly(p, "Forbidden")
     ELSE IF NotCancellable(BookingRow(b)) THEN ReturnEarly(p, "NotCancellable")
     ELSE IF AlreadyStarted(EventRow(bookings[b].eventId))
       THEN ReturnEarly(p, "EventAlreadyStarted")
     ELSE
       /\ bk' = [bk EXCEPT ![p] = BookingRow(b)]
       /\ ev' = [ev EXCEPT ![p] = EventRow(bookings[b].eventId)]
       /\ pc' = [pc EXCEPT ![p] = "c_bupd"]
       /\ UNCHANGED <<res, req, tx, err, leaked>>
  /\ UNCHANGED <<events, bookings, now, calls>>
  /\ UNCHANGED <<limiterVars, accountVars>>

\* booking.update({ status: "cancelled", cancelledAt: new Date() }, { transaction })
CancelBookingUpdate(p) ==
  /\ pc[p] = "c_bupd"
  /\ ~BookingRowLocked(p, bk[p].id)
  /\ tx' = [tx EXCEPT ![p].bupd = bk[p].id]
  /\ bk' = [bk EXCEPT ![p].status = "cancelled"]
  /\ pc' = [pc EXCEPT ![p] = "c_eupd"]
  /\ UNCHANGED <<events, bookings, now, leaked, calls, req, ev, err, res>>
  /\ UNCHANGED <<limiterVars, accountVars>>

\* a cancel that gives back one seat whatever the booking holds
SeatsAfterCancelByOne(event, booking) == event.availableSeats + 1

\* booking.Event.availableSeats + booking.numberOfSeats
SeatsAfterCancel(event, booking) == event.availableSeats + booking.numberOfSeats

\* booking.Event.update({ availableSeats: ... }, { transaction })
CancelEventUpdate(p) ==
  /\ pc[p] = "c_eupd"
  /\ LET inst == [ev[p] EXCEPT !.availableSeats = SeatsAfterCancel(ev[p], bk[p])] IN
     IF ~EventValid(inst) THEN
       Throw(p, "ValidationError") /\ UNCHANGED <<tx, ev>>
     ELSE
       /\ ~EventRowLocked(p, inst.id)
       /\ tx' = [tx EXCEPT ![p].evId = inst.id,
                            ![p].evSet = [availableSeats |-> inst.availableSeats]]
       /\ ev' = [ev EXCEPT ![p] = inst]
       /\ pc' = [pc EXCEPT ![p] = "c_commit"]
       /\ UNCHANGED err
  /\ UNCHANGED <<events, bookings, now, leaked, calls, req, bk, res>>
  /\ UNCHANGED <<limiterVars, accountVars>>

\* await transaction.commit() and res.status(200)
CancelCommit(p) ==
  /\ pc[p] = "c_commit"
  /\ bookings' = CommittedBookings(tx[p])
  /\ events' = CommittedEvents(tx[p])
  /\ Finish(p, "Cancelled")
  /\ UNCHANGED <<now, leaked, calls>>
  /\ UNCHANGED <<limiterVars, accountVars>>

\* ---------------------------------------------------------------- updateEvent
\* event.organizerId !== req.user.id && req.user.role !== "admin"
NotOrganizer(event, u) == event.organizerId # u /\ Role(u) # "admin"

\* const transaction = await sequelize.transaction(); updates = req.body
UpdateBegin(p, u, e, upd) ==
  /\ pc[p] = "idle"
  /\ Free > 0
  /\ calls' = calls + 1
  /\ req' = [req EXCEPT ![p] = [kind |-> "update", user |-> u, event |-> e,
                                seats |-> 0, bid |-> NoId, updates |-> upd]]
  /\ tx' = [tx EXCEPT ![p] = [NoTx EXCEPT !.state = "open"]]
  /\ pc' = [pc EXCEPT ![p] = "u_find"]
  /\ UNCHANGED <<events, bookings, now, leaked, ev, bk, err, res>>
  /\ UNCHANGED <<limiterVars, accountVars>>

\* Event.findByPk(req.params.id) and the checks on the row; the date checks
\* read updates.startDate and updates.endDate, which no update here carries
UpdateFind(p) ==
  /\ pc[p] = "u_find"
  /\ Free > 0
  /\ LET e == req[p].event IN
     IF e \notin DOMAIN events THEN ReturnEarly(p, "NotFound")
     ELSE IF NotOrganizer(EventRow(e), req[p].user) THEN ReturnEarly(p, "Forbidden")
     ELSE
       /\ ev' = [ev EXCEPT ![p] = EventRow(e)]
       /\ pc' = [pc EXCEPT ![p] = "u_update"]
       /\ UNCHANGED <<res, req, bk, tx, err, leaked>>
  /\ UNCHANGED <<events, bookings, now, calls>>
  /\ UNCHANGED <<limiterVars, accountVars>>

\* the columns updateEvent takes out of the request body
Protected == {"organizerId", "status", "availableSeats"}

\* a body that keeps every key it came with
KeepAll(body) == body

\* delete updates.organizerId; delete updates.status; delete updates.availableSeats
StripProtected(body) == [k \in DOMAIN body \ Protected |-> body[k]]

\* event.update(updates, { transaction }): updates is the request body after
\* the deletes; the instance takes the new values, the validators run on it,
\* the UPDATE sets the changed columns, and no UPDATE is sent without one
UpdateEventUpdate(p) ==
  /\ pc[p] = "u_update"
  /\ LET updates == StripProtected(req[p].updates)
         inst == updates @@ ev[p] IN
     IF ~EventValid(inst) THEN
       Throw(p, "ValidationError") /\ UNCHANGED <<tx, ev>>
     ELSE IF DOMAIN updates = {} THEN
       /\ pc' = [pc EXCEPT ![p] = "u_commit"]
       /\ UNCHANGED <<tx, ev, err>>
     ELSE
       /\ ~EventRowLocked(p, inst.id)
       /\ tx' = [tx EXCEPT ![p].evId = inst.id, ![p].evSet = updates]
       /\ ev' = [ev EXCEPT ![p] = inst]
       /\ pc' = [pc EXCEPT ![p] = "u_commit"]
       /\ UNCHANGED err
  /\ UNCHANGED <<events, bookings, now, leaked, calls, req, bk, res>>
  /\ UNCHANGED <<limiterVars, accountVars>>

\* await transaction.commit() and res.status(200)
UpdateCommit(p) ==
  /\ pc[p] = "u_commit"
  /\ events' = CommittedEvents(tx[p])
  /\ Finish(p, "Updated")
  /\ UNCHANGED <<bookings, now, leaked, calls>>
  /\ UNCHANGED <<limiterVars, accountVars>>

\* ---------------------------------------------------------------- deleteEvent
\* const transaction = await sequelize.transaction()
DeleteBegin(p, u, e) ==
  /\ pc[p] = "idle"
  /\ Free > 0
  /\ calls' = calls + 1
  /\ req' = [req EXCEPT ![p] = [kind |-> "delete", user |-> u, event |-> e,
                                seats |-> 0, bid |-> NoId, updates |-> << >>]]
  /\ tx' = [tx EXCEPT ![p] = [NoTx EXCEPT !.state = "open"]]
  /\ pc' = [pc EXCEPT ![p] = "d_find"]
  /\ UNCHANGED <<events, bookings, now, leaked, ev, bk, err, res>>
  /\ UNCHANGED <<limiterVars, accountVars>>

\* Event.findByPk(req.params.id) and the checks on the row
DeleteFind(p) ==
  /\ pc[p] = "d_find"
  /\ Free > 0
  /\ LET e == req[p].event IN
     IF e \notin DOMAIN events THEN ReturnEarly(p, "NotFound")
     ELSE IF NotOrganizer(EventRow(e), req[p].user) THEN ReturnEarly(p, "Forbidden")
     ELSE
       /\ ev' = [ev EXCEPT ![p] = EventRow(e)]
       /\ pc' = [pc EXCEPT ![p] = "d_count"]
       /\ UNCHANGED <<res, req, bk, tx, err, leaked>>
  /\ UNCHANGED <<events, bookings, now, calls>>
  /\ UNCHANGED <<limiterVars, accountVars>>

\* Booking.count({ where: { eventId: event.id }, transaction })
EventBookings(e) ==
  Cardinality({b \in DOMAIN bookings : bookings[b].eventId = e})

\* the count inside the transaction and the check on it
DeleteCount(p) ==
  /\ pc[p] = "d_count"
  /\ IF EventBookings(ev[p].id) > 0
     THEN ReturnEarly(p, "HasBookings")
     ELSE /\ pc' = [pc EXCEPT ![p] = "d_destroy"]
          /\ UNCHANGED <<res, req, ev, bk, tx, err, leaked>>
  /\ UNCHANGED <<events, bookings, now, calls>>
  /\ UNCHANGED <<limiterVars, accountVars>>

\* a DELETE of an event row also waits while an open transaction holds an
\* uncommitted booking of the event (the key-share lock of its foreign-key
\* check) or has written a booking row the cascade has to delete
EventRowReferenced(p, e) ==
  \E q \in Procs \ {p} :
    /\ tx[q].state = "open"
    /\ \/ tx[q].ins.id # NoId /\ tx[q].ins.eventId = e
       \/ tx[q].bupd \in DOMAIN bookings /\ bookings[tx[q].bupd].eventId = e

\* event.destroy({ transaction })
DeleteDestroy(p) ==
  /\ pc[p] = "d_destroy"
  /\ ~EventRowLocked(p, ev[p].id)
  /\ ~EventRowReferenced(p, ev[p].id)
  /\ tx' = [tx EXCEPT ![p].evDel = ev[p].id]
  /\ pc' = [pc EXCEPT ![p] = "d_commit"]
  /\ UNCHANGED <<events, bookings, now, leaked, calls, req, ev, bk, err, res>>
  /\ UNCHANGED <<limiterVars, accountVars>>

\* await transaction.commit() and res.status(204)
DeleteCommit(p) ==
  /\ pc[p] = "d_commit"
  /\ bookings' = CommittedBookings(tx[p])
  /\ events' = CommittedEvents(tx[p])
  /\ Finish(p, "Deleted")
  /\ UNCHANGED <<now, leaked, calls>>
  /\ UNCHANGED <<limiterVars, accountVars>>

\* the clock advances
Tick ==
  /\ now < MaxTime
  /\ now' = now + 1
  /\ UNCHANGED <<events, bookings, leaked, calls, pc, req, ev, bk, tx, err, res>>
  /\ UNCHANGED <<limiterVars, accountVars>>

\* ---------------------------------------------------------------- specification
\* ids a client can name: the events, the committed bookings and an id of no row
Next ==
  \/ /\ calls < MaxCalls
     /\ \E p \in Procs, u \in Users, e \in EventIds \cup {NoId}, n \in SeatCounts :
          ReserveBegin(p, u, e, n)
  \/ /\ calls < MaxCalls
     /\ \E p \in Procs, u \in Users, b \in DOMAIN bookings \cup {NoId} :
          CancelBegin(p, u, b)
  \/ /\ calls < MaxCalls
     /\ \E p \in Procs : BeginBusy(p)
  \/ \E p \in Procs : ValidateEvent(p)
  \/ \E p \in Procs : CountExisting(p)
  \/ \E p \in Procs : BookingCreate(p)
  \/ \E p \in Procs : ReserveEventUpdate(p)
  \/ \E p \in Procs : ReserveCommit(p)
  \/ \E p \in Procs : ReserveFetch(p)
  \/ \E p \in Procs : CancelFind(p)
  \/ \E p \in Procs : CancelBookingUpdate(p)
  \/ \E p \in Procs : CancelEventUpdate(p)
  \/ \E p \in Procs : CancelCommit(p)
  \/ \E p \in Procs : QueryBusy(p)
  \/ \E p \in Procs : Catch(p)
  \/ Tick

Spec == Init /\ [][Next]_vars

\* ---------------------------------------------------------------- fair scheduling
\* the steps a started handler takes: each await resumes once its promise
\* settles, a waiting statement runs once the lock it waits for is released
HandlerStep(p) ==
  \/ ValidateEvent(p)
  \/ CountExisting(p)
  \/ BookingCreate(p)
  \/ ReserveEventUpdate(p)
  \/ ReserveCommit(p)
  \/ ReserveFetch(p)
  \/ CancelFind(p)
  \/ CancelBookingUpdate(p)
  \/ CancelEventUpdate(p)
  \/ CancelCommit(p)
  \/ QueryBusy(p)
  \/ Catch(p)

\* bookable events, no booking, and earlier calls have left so many
\* transactions open that MaxCalls more calls can use up the pool
LiveInit ==
  /\ Init
  /\ \A e \in EventIds : events[e].status = "upcoming"
  /\ leaked >= PoolMax - MaxCalls

\* reserve and cancel requests with every started handler scheduled; clients
\* start requests as they like
LiveSpec == LiveInit /\ [][Next]_vars /\ \A p \in Procs : WF_vars(HandlerStep(p))

\* ---------------------------------------------------------------- event edits
\* the request bodies of updateEvent: a new totalSeats or a new price, and
\* bodies that carry availableSeats as well
Updates ==
  {[totalSeats |-> t] : t \in 1 .. InitSeats} \cup {[price |-> InitPrice + 1]}
    \cup {[availableSeats |-> 0], [totalSeats |-> InitSeats, availableSeats |-> 0]}

\* bookable events, no booking, every pooled connection free
AdminInit ==
  /\ events = [e \in EventIds |->
                [status |-> "upcoming", startDate |-> 1,
                 totalSeats |-> InitSeats, availableSeats |-> InitSeats,
                 price |-> InitPrice, organizerId |-> NoId, isActive |-> TRUE]]
  /\ bookings = << >>
  /\ now = 0
  /\ leaked = 0
  /\ calls = 0
  /\ pc = [p \in Procs |-> "idle"]
  /\ req = [p \in Procs |-> NoReq]
  /\ ev = [p \in Procs |-> NoEvent]
  /\ bk = [p \in Procs |-> NoBooking]
  /\ tx = [p \in Procs |-> NoTx]
  /\ err = [p \in Procs |-> "none"]
  /\ res = "none"
  /\ LimiterInit
  /\ AccountsInit

\* reserve, cancel and updateEvent requests in any interleaving
AdminNext ==
  \/ /\ calls < MaxCalls
     /\ \E p \in Procs, u \in Users, e \in EventIds \cup {NoId}, n \in SeatCounts :
          ReserveBegin(p, u, e, n)
  \/ /\ calls < MaxCalls
     /\ \E p \in Procs, u \in Users, b \in DOMAIN bookings \cup {NoId} :
          CancelBegin(p, u, b)
  \/ /\ calls < MaxCalls
     /\ \E p \in Procs, u \in Users, e \in EventIds \cup {NoId}, upd \in Updates :
          UpdateBegin(p, u, e, upd)
  \/ \E p \in Procs : ValidateEvent(p)
  \/ \E p \in Procs : CountExisting(p)
  \/ \E p \in Procs : BookingCreate(p)
  \/ \E p \in Procs : ReserveEventUpdate(p)
  \/ \E p \in Procs : ReserveCommit(p)
  \/ \E p \in Procs : ReserveFetch(p)
  \/ \E p \in Procs : CancelFind(p)
  \/ \E p \in Procs : CancelBookingUpdate(p)
  \/ \E p \in Procs : CancelEventUpdate(p)
  \/ \E p \in Procs : CancelCommit(p)
  \/ \E p \in Procs : UpdateFind(p)
  \/ \E p \in Procs : UpdateEventUpdate(p)
  \/ \E p \in Procs : UpdateCommit(p)
  \/ \E p \in Procs : Catch(p)
  \/ Tick

AdminSpec == AdminInit /\ [][AdminNext]_vars

\* ---------------------------------------------------------------- event deletion
\* reserve, cancel and deleteEvent requests in any interleaving
DeleteNext ==
  \/ /\ calls < MaxCalls
     /\ \E p \in Procs, u \in Users, e \in EventIds \cup {NoId}, n \in SeatCounts :
          ReserveBegin(p, u, e, n)
  \/ /\ calls < MaxCalls
     /\ \E p \in Procs, u \in Users, b \in DOMAIN bookings \cup {NoId} :
          CancelBegin(p, u, b)
  \/ /\ calls < MaxCalls
     /\ \E p \in Procs, u \in Users, e \in EventIds \cup {NoId} :
          DeleteBegin(p, u, e)
  \/ \E p \in Procs : ValidateEvent(p)
  \/ \E p \in Procs : CountExisting(p)
  \/ \E p \in Procs : BookingCreate(p)
  \/ \E p \in Procs : ReserveEventUpdate(p)
  \/ \E p \in Procs : ReserveCommit(p)
  \/ \E p \in Procs : ReserveFetch(p)
  \/ \E p \in Procs : CancelFind(p)
  \/ \E p \in Procs : CancelBookingUpdate(p)
  \/ \E p \in Procs : CancelEventUpdate(p)
  \/ \E p \in Procs : CancelCommit(p)
  \/ \E p \in Procs : DeleteFind(p)
  \/ \E p \in Procs : DeleteCount(p)
  \/ \E p \in Procs : DeleteDestroy(p)
  \/ \E p \in Procs : DeleteCommit(p)
  \/ \E p \in Procs : Catch(p)
  \/ Tick

DeleteSpec == AdminInit /\ [][DeleteNext]_vars

\* ---------------------------------------------------------------- booking rate limit
\* skip: (req) => ... || (req.user && req.user.role === 'admin')
Skipped(u) == Role(u) = "admin"

\* store.increment(key) for the key req.ip + "-" + req.user.id; a client is a
\* user at one address
Incremented(u) == [hits EXCEPT ![u] = @ + 1]

\* store.decrement(key): a key without hits stays as it is
Decremented(u) == [hits EXCEPT ![u] = IF @ > 0 THEN @ - 1 ELSE @]

\* router.post("/", bookingLimiter, validate(bookingSchema), createBooking):
\* the limiter counts the request and answers 429 above max; validate answers
\* 400 to a body the schema rejects; what is left reaches createBooking
BookingLimiter(p, u, valid) ==
  /\ pc[p] = "idle"
  /\ calls' = calls + 1
  /\ hits' = IF Skipped(u) THEN hits ELSE Incremented(u)
  /\ IF ~Skipped(u) /\ hits'[u] > BookingMax THEN
       Finish(p, "TooManyRequests") /\ UNCHANGED reached
     ELSE IF ~valid THEN
       Finish(p, "ValidationError") /\ UNCHANGED reached
     ELSE
       /\ pc' = [pc EXCEPT ![p] = "b_handler"]
       /\ req' = [req EXCEPT ![p] = [NoReq EXCEPT !.kind = "reserve", !.user = u]]
       /\ reached' = [reached EXCEPT ![u] = @ + 1]
       /\ UNCHANGED <<ev, bk, tx, err, res>>
  /\ UNCHANGED <<events, bookings, now, leaked, accountVars>>

\* createBooking answers and the response finishes: with
\* skipSuccessfulRequests the limiter takes the hit of a request back when
\* its status is below 400
HandlerResponds(p, ok) ==
  /\ pc[p] = "b_handler"
  /\ hits' = IF ~Skipped(req[p].user) /\ ok THEN Decremented(req[p].user) ELSE hits
  /\ Finish(p, IF ok THEN "Created" ELSE "Failed")
  /\ UNCHANGED <<events, bookings, now, leaked, calls, reached, accountVars>>

\* the window of windowMs ends: the store forgets its hits
WindowReset ==
  /\ now < MaxTime
  /\ now' = now + 1
  /\ hits' = [u \in Users |-> 0]
  /\ reached' = [u \in Users |-> 0]
  /\ UNCHANGED <<events, bookings, leaked, calls, pc, req, ev, bk, tx, err, res, accountVars>>

\* booking requests of the clients through the limiter, answered with
\* success or failure
RateNext ==
  \/ /\ calls < MaxRequests
     /\ \E p \in Procs, u \in Users, valid \in BOOLEAN : BookingLimiter(p, u, valid)
  \/ \E p \in Procs, ok \in BOOLEAN : HandlerResponds(p, ok)
  \/ WindowReset

RateSpec == AdminInit /\ [][RateNext]_vars

\* ---------------------------------------------------------------- omitted numberOfSeats
\* reserve requests whose body carries numberOfSeats or leaves it out
\* (Joi's .optional() sets no default and validate leaves req.body as it came)
OmitNext ==
  \/ /\ calls < MaxCalls
     /\ \E p \in Procs, u \in Users, e \in EventIds, n \in SeatCounts \cup {Undefined} :
          ReserveBegin(p, u, e, n)
  \/ \E p \in Procs : ValidateEvent(p)
  \/ \E p \in Procs : CountExisting(p)
  \/ \E p \in Procs : BookingCreate(p)
  \/ \E p \in Procs : ReserveEventUpdate(p)
  \/ \E p \in Procs : ReserveCommit(p)
  \/ \E p \in Procs : ReserveFetch(p)
  \/ \E p \in Procs : Catch(p)

OmitSpec == AdminInit /\ [][OmitNext]_vars

\* ---------------------------------------------------------------- accounts and tokens
\* the emails: those of the seeded users and those still free
Emails == 1 .. NumUsers + MaxNewUsers

\* what a client types as a password; "password123" is the seeded one
Passwords == {[text |-> t, hashed |-> 0] : t \in {"password123", "Passw0rd1", "Passw0rd2"}}

\* !(password.length < 8 || !/[A-Z]/.test(password) || !/[0-9]/.test(password))
PasswordOk(pw) == pw.text \in {"Passw0rd1", "Passw0rd2"}

\* process.env.JWT_SECRET
JwtSecret == "JWT_SECRET"

\* jwt.sign(claims, secret, { algorithm })
Sign(claims, secret, alg) == [payload |-> claims, alg |-> alg, key |-> secret]

\* jwt.verify(token, secret) accepts the HMAC signatures made with the secret
Verifies(jwt, secret) == jwt.key = secret /\ jwt.alg \in {"HS256", "HS384", "HS512"}

\* generateToken: the claims sub and role (iat and jti carry no identity)
GenerateToken(id, role) == Sign([sub |-> id, role |-> role], JwtSecret, "HS512")

\* decoded[name]: undefined for a claim the payload lacks, and findByPk of
\* undefined finds no row, like the id no row carries
Claim(decoded, name) == IF name \in DOMAIN decoded THEN decoded[name] ELSE NoId

\* User.findOne({ where: { email: { [Op.iLike]: email } } })
FindByEmail(m) == {u \in DOMAIN users : users[u].email = m}

\* register: the handler hashes the password and User.create runs the
\* beforeCreate hook, which hashes what it is given
Register(m, pw) ==
  /\ calls' = calls + 1
  /\ IF FindByEmail(m) # {} THEN
       res' = "EmailTaken" /\ UNCHANGED <<users, token>>
     ELSE IF ~PasswordOk(pw) THEN
       res' = "WeakPassword" /\ UNCHANGED <<users, token>>
     ELSE
       LET id == Cardinality(DOMAIN users) + 1
           hashedPassword == Hash(pw)
       IN /\ users' = users @@ (id :> [email |-> m, password |-> Hash(hashedPassword),
                                        role |-> "user", isActive |-> TRUE])
          /\ token' = [jwt |-> GenerateToken(id, "user"), user |-> id]
          /\ res' = "Registered"
  /\ UNCHANGED <<events, bookings, now, leaked, pc, req, ev, bk, tx, err, reqUser, limiterVars>>

\* login: user.update({ lastLoginAt, loginAttempts }) leaves the password as it is
Login(m, pw) ==
  /\ calls' = calls + 1
  /\ IF \A u \in FindByEmail(m) : ~Compare(pw, users[u].password) THEN
       res' = "InvalidCredentials" /\ UNCHANGED token
     ELSE
       LET u == CHOOSE x \in FindByEmail(m) : TRUE IN
       IF ~users[u].isActive THEN
         res' = "Deactivated" /\ UNCHANGED token
       ELSE
         /\ token' = [jwt |-> GenerateToken(u, users[u].role), user |-> u]
         /\ res' = "LoggedIn"
  /\ UNCHANGED <<events, bookings, now, leaked, pc, req, ev, bk, tx, err, users, reqUser,
                 limiterVars>>

\* updatePassword for req.user = u: the handler hashes the new password and
\* user.update runs the beforeUpdate hook, which hashes a changed password
UpdatePassword(u, currentPassword, newPassword) ==
  /\ calls' = calls + 1
  /\ IF ~Compare(currentPassword, users[u].password) THEN
       res' = "WrongPassword" /\ UNCHANGED users
     ELSE IF ~PasswordOk(newPassword) THEN
       res' = "WeakPassword" /\ UNCHANGED users
     ELSE
       LET hashedPassword == Hash(newPassword) IN
       /\ users' = [users EXCEPT ![u].password = Hash(hashedPassword)]
       /\ res' = "PasswordUpdated"
  /\ UNCHANGED <<events, bookings, now, leaked, pc, req, ev, bk, tx, err, token, reqUser,
                 limiterVars>>

\* authenticate: the Bearer token is verified, the user is looked up by
\* decoded.id and becomes req.user
Authenticate(presented) ==
  /\ calls' = calls + 1
  /\ IF presented = NoToken THEN
       res' = "NotLoggedIn" /\ reqUser' = NoId
     ELSE IF ~Verifies(presented.jwt, JwtSecret) THEN
       res' = "InvalidToken" /\ reqUser' = NoId
     ELSE
       LET id == Claim(presented.jwt.payload, "id") IN
       IF id \notin DOMAIN users THEN
         res' = "UserGone" /\ reqUser' = NoId
       ELSE IF ~users[id].isActive THEN
         res' = "AccountDeactivated" /\ reqUser' = NoId
       ELSE
         res' = "Authenticated" /\ reqUser' = id
  /\ UNCHANGED <<events, bookings, now, leaked, pc, req, ev, bk, tx, err, users, token,
                 limiterVars>>

\* the account routes, one request after the other; the client presents the
\* token it holds or none
AuthNext ==
  \/ /\ calls < MaxRequests
     /\ \E m \in Emails, pw \in Passwords : Register(m, pw)
  \/ /\ calls < MaxRequests
     /\ \E m \in Emails, pw \in Passwords : Login(m, pw)
  \/ /\ calls < MaxRequests
     /\ \E u \in DOMAIN users, cur \in Passwords, new \in Passwords : UpdatePassword(u, cur, new)
  \/ /\ calls < MaxRequests
     /\ \E presented \in {token, NoToken} : Authenticate(presented)

AuthSpec == AdminInit /\ [][AuthNext]_vars

\* ---------------------------------------------------------------- scenario
\* one event list of ScenarioSeats seats each, not yet started whatever the
\* clock does, no booking, every pooled connection free
ScenarioInit ==
  /\ events = [e \in EventIds |->
                [status |-> "upcoming", startDate |-> MaxTime + 1,
                 totalSeats |-> ScenarioSeats, availableSeats |-> ScenarioSeats,
                 price |-> InitPrice, organizerId |-> NoId, isActive |-> TRUE]]
  /\ bookings = << >>
  /\ now = 0
  /\ leaked = 0
  /\ calls = 0
  /\ pc = [p \in Procs |-> "idle"]
  /\ req = [p \in Procs |-> NoReq]
  /\ ev = [p \in Procs |-> NoEvent]
  /\ bk = [p \in Procs |-> NoBooking]
  /\ tx = [p \in Procs |-> NoTx]
  /\ err = [p \in Procs |-> "none"]
  /\ res = "none"
  /\ LimiterInit
  /\ AccountsInit

AllIdle == \A p \in Procs : pc[p] = "idle"

\* user A and the event are those of the first booking; user B is the next user
ScenarioA == bookings[1].userId

ScenarioEvent == bookings[1].eventId

ScenarioB(a) == (a % NumUsers) + 1

\* the five calls, each started when the one before has been answered
ScenarioCall(p) ==
  /\ AllIdle
  /\ \/ /\ calls = 0
        /\ \E a \in Users, e \in EventIds : ReserveBegin(p, a, e, SeatsA)
     \/ /\ calls = 1
        /\ \E n \in SeatCounts : ReserveBegin(p, ScenarioA, ScenarioEvent, n)
     \/ /\ calls \in {2, 4}
        /\ ReserveBegin(p, ScenarioB(ScenarioA), ScenarioEvent, SeatsB)
     \/ /\ calls = 3
        /\ CancelBegin(p, ScenarioA, 1)

ScenarioNext ==
  \/ \E p \in Procs : ScenarioCall(p)
  \/ \E p \in Procs : ValidateEvent(p)
  \/ \E p \in Procs : CountExisting(p)
  \/ \E p \in Procs : BookingCreate(p)
  \/ \E p \in Procs : ReserveEventUpdate(p)
  \/ \E p \in Procs : ReserveCommit(p)
  \/ \E p \in Procs : ReserveFetch(p)
  \/ \E p \in Procs : CancelFind(p)
  \/ \E p \in Procs : CancelBookingUpdate(p)
  \/ \E p \in Procs : CancelEventUpdate(p)
  \/ \E p \in Procs : CancelCommit(p)
  \/ \E p \in Procs : Catch(p)
  \/ Tick

ScenarioSpec == ScenarioInit /\ [][ScenarioNext]_vars

\* ---------------------------------------------------------------- properties
BookingsOf(e, statuses) ==
  {b \in DOMAIN bookings : bookings[b].eventId = e /\ bookings[b].status \in statuses}

ConfirmedSeats(e) == SumSeats(bookings, BookingsOf(e, {"confirmed"}))

ActiveSeats(e) == SumSeats(bookings, BookingsOf(e, {"confirmed", "pending"}))

\* C1: no overselling -- in every committed state the seats of an event's
\* confirmed bookings sum to at most the event's totalSeats.
C1_NoOverselling ==
  \A e \in DOMAIN events : ConfirmedSeats(e) <= events[e].totalSeats

\* C2: seat accounting -- in every committed state every event has
\* availableSeats + (seats of its confirmed or pending bookings) = totalSeats.
C2_SeatAccounting ==
  \A e \in DOMAIN events :
    events[e].availableSeats + ActiveSeats(e) = events[e].totalSeats

\* bookings of user u for event e that hold seats
ActiveOf(u, e) ==
  {b \in DOMAIN bookings : /\ bookings[b].userId = u
                           /\ bookings[b].eventId = e
                           /\ bookings[b].status \in {"confirmed", "pending"}}

\* process p takes a step
Steps(p) == pc'[p] # pc[p]

\* process p's query is answered, not timed out by the pool
Answered(p) == err'[p] # "Busy"

\* C3: in every committed state a (user, event) pair has at most one booking
\* with status confirmed or pending, also under concurrent reserve calls of
\* one user for one event.
C3_UniqueActive ==
  \A u \in Users, e \in EventIds : Cardinality(ActiveOf(u, e)) <= 1

\* C3 witness: a reserve passed the count check, a concurrent reserve of the
\* same user for the same event committed, and the INSERT was refused.
C3_Witness ==
  \E p \in Procs :
    /\ pc[p] = "catch"
    /\ err[p] = "UniqueViolation"
    /\ Cardinality(ActiveOf(req[p].user, req[p].event)) = 1

\* C4: a reserve whose user holds an active booking for the event, once its
\* count query is answered, fails with DuplicateBooking, has written nothing
\* and changes no committed row, up to and including its rollback.
C4_DuplicateRejected ==
  [][\A p \in Procs :
       /\ ( /\ pc[p] = "r_count"
            /\ Steps(p)
            /\ Answered(p)
            /\ ActiveOf(req[p].user, req[p].event) # {} )
          => /\ pc'[p] = "catch"
             /\ err'[p] = "DuplicateBooking"
             /\ tx[p].ins.id = NoId /\ tx[p].evId = NoId
             /\ UNCHANGED store
       /\ (pc[p] = "catch" /\ err[p] = "DuplicateBooking" /\ Steps(p))
          => /\ pc'[p] = "idle"
             /\ res' = "DuplicateBooking"
             /\ UNCHANGED store
    ]_vars

\* C4 witness: a handler answered DuplicateBooking while the booking stands.
C4_Witness ==
  /\ res = "DuplicateBooking"
  /\ \E u \in Users, e \in EventIds : ActiveOf(u, e) # {}

\* C5: only active bookings block a reservation -- the INSERT of a reserve
\* that passed validation, whose user holds no active booking for the event,
\* succeeds.
C5_CancelledDoesNotBlock ==
  [][\A p \in Procs :
       ( /\ pc[p] = "r_insert"
         /\ Steps(p)
         /\ ActiveOf(req[p].user, req[p].event) = {} )
       => pc'[p] = "r_update"
    ]_vars

\* C6: reserve is all-or-nothing -- the commit of a reserve adds exactly one
\* booking row and lowers the event's committed availableSeats by that row's
\* numberOfSeats; every other step of a reserve changes no committed row.
C6_AllOrNothing ==
  [][\A p \in Procs :
       (req[p].kind = "reserve" /\ Steps(p)) =>
         IF pc[p] = "r_commit"
         THEN /\ \E b \in DOMAIN bookings' \ DOMAIN bookings :
                   /\ DOMAIN bookings' = DOMAIN bookings \cup {b}
                   /\ bookings'[b].numberOfSeats = req[p].seats
                   /\ bookings'[b].eventId = req[p].event
              /\ events'[req[p].event].availableSeats =
                   events[req[p].event].availableSeats - req[p].seats
         ELSE UNCHANGED store
    ]_vars

\* C7: a reserve that answers a failure has left no booking row of its own in
\* the committed store.
C7_FailureLeavesNothing ==
  [][\A p \in Procs :
       (req[p].kind = "reserve" /\ pc'[p] = "idle" /\ res' # "Created")
       => tx[p].ins.id \notin DOMAIN bookings'
    ]_vars

\* C8: the availableSeats a call read for its check is the committed value
\* when the call writes its update of the event row.
C8_ReadStillCurrent ==
  [][\A p \in Procs :
       (pc[p] \in {"r_update", "c_eupd"} /\ pc'[p] \in {"r_commit", "c_commit"})
       => ev[p].availableSeats = events[ev[p].id].availableSeats
    ]_vars

\* C9: a successful cancel sets its confirmed booking to cancelled, raises the
\* committed availableSeats of the booking's event by exactly the booking's
\* numberOfSeats and changes no other row.
C9_CancelRestores ==
  [][\A p \in Procs :
       (pc[p] = "c_commit" /\ Steps(p)) =>
         /\ bookings[bk[p].id].status = "confirmed"
         /\ bookings' = [bookings EXCEPT ![bk[p].id].status = "cancelled"]
         /\ events' = [events EXCEPT ![ev[p].id].availableSeats =
                                        @ + bk[p].numberOfSeats]
    ]_vars

\* C10: a cancel by an authorized actor of a booking that is not confirmed,
\* once its query is answered, fails with NotCancellable and changes no
\* committed row.
C10_NotReapplicable ==
  [][\A p \in Procs :
       ( /\ pc[p] = "c_find"
         /\ Steps(p)
         /\ Answered(p)
         /\ req[p].bid \in DOMAIN bookings
         /\ (bookings[req[p].bid].userId = req[p].user \/ Role(req[p].user) = "admin")
         /\ bookings[req[p].bid].status # "confirmed" )
       => /\ pc'[p] = "idle"
          /\ res' = "NotCancellable"
          /\ UNCHANGED store
    ]_vars

\* C10 witness: a second cancel of a cancelled booking was answered
\* NotCancellable.
C10_Witness ==
  /\ res = "NotCancellable"
  /\ \E b \in DOMAIN bookings : bookings[b].status = "cancelled"

\* C11: a reserve for an existing bookable event, once its query is answered,
\* fails with InsufficientSeats when it asks for more seats than the event's
\* committed availableSeats, has written nothing and changes no committed row
\* up to and including its rollback; a reserve that asks for at most
\* availableSeats passes the seats check and no later step answers
\* InsufficientSeats.
C11_InsufficientSeats ==
  [][\A p \in Procs :
       /\ ( /\ pc[p] = "r_find"
            /\ Steps(p)
            /\ Answered(p)
            /\ req[p].event \in DOMAIN events
            /\ events[req[p].event].status = "upcoming" )
          => IF req[p].seats > events[req[p].event].availableSeats
             THEN /\ pc'[p] = "catch"
                  /\ err'[p] = "InsufficientSeats"
                  /\ tx[p].ins.id = NoId /\ tx[p].evId = NoId
                  /\ UNCHANGED store
             ELSE pc'[p] = "r_count"
       /\ (pc[p] = "catch" /\ err[p] = "InsufficientSeats" /\ Steps(p))
          => /\ pc'[p] = "idle"
             /\ res' = "InsufficientSeats"
             /\ UNCHANGED store
       /\ (err'[p] = "InsufficientSeats" /\ err[p] # "InsufficientSeats")
          => pc[p] = "r_find"
    ]_vars

\* C11 witness: a reserve was answered InsufficientSeats for an event that
\* still has seats left, fewer than the largest request.
C11_Witness ==
  /\ res = "InsufficientSeats"
  /\ \E e \in DOMAIN events :
       /\ events[e].status = "upcoming"
       /\ events[e].availableSeats > 0
       /\ events[e].availableSeats < MaxSeats

\* the committed store after user A's reserve: one booking, of SeatsA seats
AfterFirstReserve(status, avail) ==
  /\ DOMAIN bookings = {1}
  /\ bookings[1].numberOfSeats = SeatsA
  /\ bookings[1].totalAmount = InitPrice * SeatsA
  /\ bookings[1].status = status
  /\ \A e \in DOMAIN events :
       events[e].availableSeats = IF e = ScenarioEvent THEN avail ELSE ScenarioSeats

\* C12: the end-to-end scenario, each call started after the answer to the one
\* before -- A reserves SeatsA: confirmed, totalAmount = price x SeatsA,
\* availableSeats = ScenarioSeats - SeatsA; A reserves again: DuplicateBooking;
\* B asks for SeatsB: InsufficientSeats; A cancels: booking cancelled,
\* availableSeats = ScenarioSeats; B reserves SeatsB: succeeds, availableSeats =
\* ScenarioSeats - SeatsB.
C12_Scenario ==
  AllIdle =>
    /\ calls = 1 => /\ res = "Created"
                    /\ AfterFirstReserve("confirmed", ScenarioSeats - SeatsA)
    /\ calls = 2 => /\ res = "DuplicateBooking"
                    /\ AfterFirstReserve("confirmed", ScenarioSeats - SeatsA)
    /\ calls = 3 => /\ res = "InsufficientSeats"
                    /\ AfterFirstReserve("confirmed", ScenarioSeats - SeatsA)
    /\ calls = 4 => /\ res = "Cancelled"
                    /\ AfterFirstReserve("cancelled", ScenarioSeats)
    /\ calls = 5 => /\ res = "Created"
                    /\ DOMAIN bookings = {1, 2}
                    /\ bookings[1].status = "cancelled"
                    /\ bookings[2] = [userId |-> ScenarioB(ScenarioA),
                                      eventId |-> ScenarioEvent,
                                      numberOfSeats |-> SeatsB,
                                      totalAmount |-> InitPrice * SeatsB,
                                      status |-> "confirmed"]
                    /\ events[ScenarioEvent].availableSeats = ScenarioSeats - SeatsB

\* C12 witness: the fifth call of the scenario has been answered.
C12_Witness ==
  /\ AllIdle
  /\ calls = 5
  /\ res = "Created"
  /\ 2 \in DOMAIN bookings

\* C13: every transaction a handler opened is committed or rolled back when
\* the handler answers -- no answer leaves a transaction open, holding its
\* pooled connection.
C13_TxAlwaysEnded ==
  [][\A p \in Procs :
       (pc[p] # "idle" /\ pc'[p] = "idle" /\ tx[p].state = "open")
       => leaked' = leaked
    ]_vars

\* C14: a reserve for an existing event that is not open for booking (status
\* other than upcoming) or whose start time is not after the current time,
\* once its query is answered, fails with NotBookable and changes no committed
\* row.
C14_NotBookable ==
  [][\A p \in Procs :
       ( /\ pc[p] = "r_find"
         /\ Steps(p)
         /\ Answered(p)
         /\ req[p].event \in DOMAIN events
         /\ \/ events[req[p].event].status # "upcoming"
            \/ events[req[p].event].startDate <= now )
       => /\ pc'[p] = "catch"
          /\ err'[p] = "NotBookable"
          /\ UNCHANGED store
    ]_vars

\* C15: a cancel of an existing booking by an actor who is neither its owner
\* nor an admin, once its query is answered, fails with Forbidden and changes
\* no committed row; a cancel that succeeds is by the owner or an admin.
C15_Forbidden ==
  [][\A p \in Procs :
       /\ ( /\ pc[p] = "c_find"
            /\ Steps(p)
            /\ Answered(p)
            /\ req[p].bid \in DOMAIN bookings
            /\ bookings[req[p].bid].userId # req[p].user
            /\ Role(req[p].user) # "admin" )
          => /\ pc'[p] = "idle"
             /\ res' = "Forbidden"
             /\ UNCHANGED store
       /\ (pc[p] = "c_commit" /\ Steps(p))
          => \/ bookings[req[p].bid].userId = req[p].user
             \/ Role(req[p].user) = "admin"
    ]_vars

\* C15 witness: a cancel was answered Forbidden and the booking it named is
\* still confirmed.
C15_Witness ==
  /\ res = "Forbidden"
  /\ \E b \in DOMAIN bookings :
       bookings[b].status = "confirmed" /\ Role(bookings[b].userId) = "admin"

\* C16: a cancel by an authorized actor of a confirmed booking whose event's
\* start time is at or before the current time, once its query is answered,
\* fails with EventAlreadyStarted and changes no committed row.
C16_EventAlreadyStarted ==
  [][\A p \in Procs :
       ( /\ pc[p] = "c_find"
         /\ Steps(p)
         /\ Answered(p)
         /\ req[p].bid \in DOMAIN bookings
         /\ (bookings[req[p].bid].userId = req[p].user \/ Role(req[p].user) = "admin")
         /\ bookings[req[p].bid].status = "confirmed"
         /\ events[bookings[req[p].bid].eventId].startDate <= now )
       => /\ pc'[p] = "idle"
          /\ res' = "EventAlreadyStarted"
          /\ UNCHANGED store
    ]_vars

\* C16 witness: a cancel was answered EventAlreadyStarted at the start time
\* of the event of a confirmed booking.
C16_Witness ==
  /\ res = "EventAlreadyStarted"
  /\ \E b \in DOMAIN bookings :
       /\ bookings[b].status = "confirmed"
       /\ events[bookings[b].eventId].startDate = now

C20_StatusLifecycle ==
  [][/\ \A b \in DOMAIN bookings' \ DOMAIN bookings :
          bookings'[b].status = "confirmed"
     /\ \A b \in DOMAIN bookings \cap DOMAIN bookings' :
          \/ bookings'[b].status = bookings[b].status
          \/ /\ bookings[b].status = "confirmed"
             /\ bookings'[b].status = "cancelled"
             /\ \E p \in Procs : /\ pc[p] = "c_commit"
                                 /\ Steps(p)
                                 /\ bk[p].id = b
    ]_vars

\* C20 witness: a cancel has just been answered and a booking is cancelled
\* while another one is confirmed.
C20_Witness ==
  /\ res = "Cancelled"
  /\ \E b, c \in DOMAIN bookings :
       bookings[b].status = "cancelled" /\ bookings[c].status = "confirmed"

\* C17: in every committed state every event has
\* 0 <= availableSeats <= totalSeats, whatever reserve, cancel and event
\* update requests ran and however they interleaved.
C17_SeatBounds ==
  \A e \in DOMAIN events :
    /\ 0 <= events[e].availableSeats
    /\ events[e].availableSeats <= events[e].totalSeats

\* C19: a reserve reads the event's committed price during the call, and the
\* booking row it commits has numberOfSeats = the seats asked for and
\* totalAmount = that price x numberOfSeats; no later step -- a price change by
\* updateEvent, a cancel of the booking -- changes a committed booking's
\* numberOfSeats or totalAmount.
C19_TotalAmount ==
  [][/\ \A p \in Procs :
          /\ (pc[p] = "r_find" /\ pc'[p] = "r_count")
             => ev'[p].price = events[req[p].event].price
          /\ (pc[p] = "r_commit" /\ Steps(p))
             => /\ bookings'[tx[p].ins.id].numberOfSeats = req[p].seats
                /\ bookings'[tx[p].ins.id].totalAmount = ev[p].price * req[p].seats
     /\ \A b \in DOMAIN bookings \cap DOMAIN bookings' :
          /\ bookings'[b].numberOfSeats = bookings[b].numberOfSeats
          /\ bookings'[b].totalAmount = bookings[b].totalAmount
    ]_vars

\* C19 witness: the price of an event was changed after a booking of several
\* seats was made, the booking was cancelled, and it still carries the amount
\* of the old price.
C19_Witness ==
  \E b \in DOMAIN bookings :
    /\ bookings[b].status = "cancelled"
    /\ bookings[b].numberOfSeats > 1
    /\ events[bookings[b].eventId].price # InitPrice
    /\ bookings[b].totalAmount = InitPrice * bookings[b].numberOfSeats

\* C21: a committed booking row is never physically removed: the booking ids
\* of the store never shrink, whatever step is taken, a deleteEvent that
\* commits next to a reserve of the same event included.
C21_BookingNeverRemoved ==
  [][DOMAIN bookings \subseteq DOMAIN bookings']_vars

\* C22: a deleteEvent that finds at least one booking of the event (of any
\* status) keeps the event row and its bookings and leaves the event
\* soft-deactivated (isActive false); a deleteEvent that removes the event
\* row found no booking of it.
C22_SoftDeactivate ==
  [][\A p \in Procs :
       /\ ( /\ pc[p] = "d_count"
            /\ Steps(p)
            /\ EventBookings(ev[p].id) > 0 )
          => /\ ev[p].id \in DOMAIN events'
             /\ events'[ev[p].id].isActive = FALSE
             /\ bookings' = bookings
       /\ (pc[p] = "d_commit" /\ Steps(p) /\ ev[p].id \notin DOMAIN events')
          => EventBookings(ev[p].id) = 0
    ]_vars

C24_AlwaysReturns ==
  /\ \A p \in Procs : (pc[p] # "idle") ~> (pc[p] = "idle")
  /\ [][/\ (calls' # calls /\ pc' = pc)
             => res' = "Busy" /\ UNCHANGED store
        /\ \A p \in Procs :
             /\ (err'[p] = "Busy" /\ err[p] # "Busy")
                => UNCHANGED store
             /\ (pc[p] = "catch" /\ err[p] = "Busy" /\ tx[p].state = "open" /\ Steps(p))
                => /\ res' = "Busy"
                   /\ UNCHANGED store
       ]_vars

\* the call before ended in a validation failure of cancelBooking and left
\* its transaction open; this call found no connection for its first query
C24_Witness ==
  \E p \in Procs :
    /\ pc[p] = "catch"
    /\ err[p] = "Busy"
    /\ tx[p].state = "open"
    /\ res = "Forbidden"
    /\ leaked = PoolMax - 1

\* C25: within one window at most BookingMax booking requests of a client
\* that is not an admin reach createBooking, whether they succeed or fail.
C25_RateLimit ==
  \A u \in Users : ~Skipped(u) => reached[u] <= BookingMax

\* C26: a reserve whose body leaves numberOfSeats out books one seat: once
\* its booking row is written it goes on to write the event and to commit,
\* and its commit adds a booking of 1 seat for the price of the event and
\* takes exactly 1 from availableSeats.
C26_DefaultOneSeat ==
  [][\A p \in Procs :
       (req[p].kind = "reserve" /\ req[p].seats = Undefined /\ Steps(p)) =>
         /\ pc[p] = "r_update" => pc'[p] = "r_commit"
         /\ pc[p] = "r_commit" =>
              /\ bookings'[tx[p].ins.id].numberOfSeats = 1
              /\ bookings'[tx[p].ins.id].totalAmount = ev[p].price
              /\ events'[ev[p].id].availableSeats = events[ev[p].id].availableSeats - 1
    ]_vars

\* C27: of the cancel calls on one booking at most one succeeds: a cancel that
\* commits finds the booking still confirmed in the store, so that its seats
\* are given back once; a cancel that is answered after the booking was
\* cancelled is answered NotCancellable.
C27_OneCancelWins ==
  [][\A p \in Procs :
       (req[p].kind = "cancel" /\ pc'[p] = "idle" /\ Steps(p)
          /\ req[p].bid \in DOMAIN bookings
          /\ bookings[req[p].bid].status = "cancelled"
          /\ res' \notin {"Busy", "Forbidden"})
       => res' = "NotCancellable"
    ]_vars

\* C28: the token a successful register or login returned for user U,
\* presented while U exists and is active, passes authenticate and makes U
\* the request's user.
C28_TokenRoundTrip ==
  [][( /\ calls' # calls
       /\ token # NoToken
       /\ token' = token
       /\ res' \in {"Authenticated", "InvalidToken", "UserGone", "AccountDeactivated"}
       /\ token.user \in DOMAIN users
       /\ users[token.user].isActive )
     => /\ res' = "Authenticated"
        /\ reqUser' = token.user
    ]_vars

\* C29: the stored password of every user is exactly one hash application of
\* the password the user chose, so that a login with it succeeds after
\* register and after updatePassword.
C29_OneHash ==
  \A u \in DOMAIN users :
    /\ users[u].password.hashed = 1
    /\ Compare([text |-> users[u].password.text, hashed |-> 0], users[u].password)

\* C30: an updateEvent that commits a new totalSeats for an event with active
\* bookings leaves availableSeats + (seats of the active bookings) =
\* totalSeats, and never commits a totalSeats below the seats the active
\* bookings hold.
C30_CapacityEdit ==
  [][\A p \in Procs :
       ( /\ pc[p] = "u_commit"
         /\ Steps(p)
         /\ tx[p].evId \in DOMAIN events
         /\ events'[tx[p].evId].totalSeats # events[tx[p].evId].totalSeats
         /\ ActiveSeats(tx[p].evId) > 0 )
       => /\ events'[tx[p].evId].availableSeats + ActiveSeats(tx[p].evId)
               = events'[tx[p].evId].totalSeats
          /\ events'[tx[p].evId].totalSeats >= ActiveSeats(tx[p].evId)
    ]_vars

====
